---------------------------- MODULE Spec2Model ----------------------------
(***************************************************************************)
(* IndicScribe: the hybrid text-extraction pipeline of VisionService       *)
(* (app/services/google_client.py).  One extraction call is modelled as a  *)
(* state machine: detect_text routes by magic bytes, the PDF path runs     *)
(* direct extraction, the quality classifier and, on rejection, the        *)
(* render / OCR fan-out / merge phase on a ThreadPoolExecutor.             *)
(*                                                                         *)
(* Text and bytes are sequences of character codes (ord values), so that   *)
(* len(), strip(), count() and the page-marker formatting are computed as  *)
(* the code computes them.                                                 *)
(***************************************************************************)
EXTENDS Integers, Sequences, FiniteSets, TLC

\* ------------------------------------------------------------------ bounds

\* Largest number of pages of a modelled PDF.
MaxPages == 4

\* The texts handed to the classifier alone: at most this many "(cid:"
\* patterns, control characters and letters, between whitespace of this length.
MaxCids == 4

MaxCtrls == 7

MaxFill == 60

MaxPad == 3

\* The number of threads that call get_google_client.
MaxThreads == 3

\* The number of calls of get_or_create_user that are followed.
MaxCalls == 2

\* The number of calls of save_project that are followed.
MaxSaves == 2

\* ------------------------------------------------------- program constants

\* A slip in the pool: as many workers as there can be pages.
max_workers_per_page == MaxPages + 1

\* self.max_workers = 3
max_workers == 3

\* ---------------------------------------------------------- text helpers

Max(a, b) == IF a >= b THEN a ELSE b
Min(a, b) == IF a <= b THEN a ELSE b

\* n copies of the character c.
Rep(c, n) == [i \in 1..n |-> c]

RECURSIVE Concat(_)
\* The concatenation of a sequence of strings.
Concat(ss) == IF ss = <<>> THEN <<>> ELSE Head(ss) \o Concat(Tail(ss))

NL == 10   \* '\n'

\* Python optionals: None is the empty tuple, a value v is <<v>>.
None == <<>>
Some(v) == <<v>>
\* Python truthiness of an optional integer: None and 0 are falsy.
Truthy(a) == a # None /\ a[1] # 0

\* "%PDF"
PdfMagic == <<37, 80, 68, 70>>

\* Python's seq[lo:hi] for a list of length n: the 1-based positions kept.
SliceIndices(n, lo, hi) ==
    LET norm(i) == IF i < 0 THEN Max(n + i, 0) ELSE Min(i, n)
    IN  { k \in 1..n : norm(lo) < k /\ k <= norm(hi) }

\* Python's bytes[:k].
Prefix(s, k) == SubSeq(s, 1, Min(k, Len(s)))

RECURSIVE Digits(_)
\* str(n) for n >= 0, as character codes.
Digits(n) == IF n < 10 THEN <<48 + n>> ELSE Digits(n \div 10) \o <<48 + (n % 10)>>

\* "--- Page "  and  " ---"
MarkerHead == <<45, 45, 45, 32, 80, 97, 103, 101, 32>>
MarkerTail == <<32, 45, 45, 45>>

\* f"--- Page {num} ---\n{text}\n"
PageBlock(num, text) == MarkerHead \o Digits(num) \o MarkerTail \o <<NL>> \o text \o <<NL>>

RECURSIVE JoinNL(_)
\* "\n".join(parts)
JoinNL(parts) ==
    IF parts = <<>> THEN <<>>
    ELSE IF Len(parts) = 1 THEN parts[1]
    ELSE parts[1] \o <<NL>> \o JoinNL(Tail(parts))

\* ----------------------------------------------------- VisionService._is_pdf

\* A slip in the signature test: only the first three bytes are compared.
_is_pdf_three_bytes(file_bytes) == Prefix(file_bytes, 3) = Prefix(PdfMagic, 3)

_is_pdf(file_bytes) == Prefix(file_bytes, 4) = PdfMagic

\* ------------------------------------------ VisionService._is_text_quality_good

\* The characters str.strip() removes, among the codes below 128: tab, newline,
\* vertical tab, form feed, carriage return, the separators 28..31 and space.
Whitespace == (9..13) \cup (28..32)

RECURSIVE LStrip(_)
LStrip(s) == IF s # <<>> /\ Head(s) \in Whitespace THEN LStrip(Tail(s)) ELSE s

RECURSIVE RStrip(_)
RStrip(s) ==
    IF s # <<>> /\ s[Len(s)] \in Whitespace THEN RStrip(SubSeq(s, 1, Len(s) - 1)) ELSE s

\* text.strip()
Strip(s) == RStrip(LStrip(s))

\* "(cid:"
CidPattern == <<40, 99, 105, 100, 58>>

\* text.count('(cid:'): the pattern cannot overlap itself, so every match counts.
CountCid(text) ==
    Cardinality({ i \in 1..(Len(text) - 4) : SubSeq(text, i, i + 4) = CidPattern })

\* A slip in the count: every character below 32, line breaks and tabs too.
CountControl_every(text) ==
    Cardinality({ i \in 1..Len(text) : text[i] < 32 })

\* sum(1 for c in text if ord(c) < 32 and c not in '\n\t\r')
CountControl(text) ==
    Cardinality({ i \in 1..Len(text) : text[i] < 32 /\ text[i] \notin {10, 9, 13} })

\* The thresholds of the classifier; the percentages are compared as
\* count * 100 > threshold * len, the exact form of (count / len) * 100 > threshold.
MinTextLen == 50
CidMaxPercent == 5
ControlMaxPercent == 10

\* A slip in the CID rule: a ratio of exactly 5% rejects too.
QualityVerdict_cid_inclusive(text) ==
    IF text = <<>> \/ Len(Strip(text)) < MinTextLen THEN "too_short"
    ELSE IF CountCid(text) * 100 >= CidMaxPercent * Len(text) THEN "cid"
    ELSE IF CountControl(text) * 100 > ControlMaxPercent * Len(text) THEN "control"
    ELSE "good"

\* A slip in the length rule: the length of the text as it came, untrimmed.
QualityVerdict_untrimmed(text) ==
    IF text = <<>> \/ Len(text) < MinTextLen THEN "too_short"
    ELSE IF CountCid(text) * 100 > CidMaxPercent * Len(text) THEN "cid"
    ELSE IF CountControl(text) * 100 > ControlMaxPercent * Len(text) THEN "control"
    ELSE "good"

\* The branch _is_text_quality_good ends in: one of its three warnings, or
\* the final "Text quality acceptable".
QualityVerdict(text) ==
    IF text = <<>> \/ Len(Strip(text)) < MinTextLen THEN "too_short"
    ELSE IF CountCid(text) * 100 > CidMaxPercent * Len(text) THEN "cid"
    ELSE IF CountControl(text) * 100 > ControlMaxPercent * Len(text) THEN "control"
    ELSE "good"

\* True on the last branch, False on the three others.
_is_text_quality_good(text) == QualityVerdict(text) = "good"

\* ------------------------------------------------- the external capabilities

\* What pdfplumber's page.extract_text() does on a page: returns no text,
\* raises, or returns one of these embedded texts.
PageKinds == {"none", "throws", "brief", "good", "cid"}

\* "(cid:1)" eight times: glyph codes a broken font encoding leaves behind.
CidGarbage == Concat([i \in 1..8 |-> CidPattern \o <<49, 41>>])

\* The embedded text of page p of the given kind (pages differ by a letter).
PageText(kind, p) ==
    CASE kind = "brief" -> Rep(97 + p, 5)
      [] kind = "good"  -> Rep(97 + p, 60)
      [] kind = "cid"   -> CidGarbage
      [] OTHER          -> <<>>

\* What one OCR request does: the service recognises text, finds none,
\* reports response.error.message, or the call raises; "encfail" is
\* pil_image.save raising before the request is made.
OcrKinds == {"text", "empty", "error", "raises", "encfail"}

\* response.text_annotations[0].description for the image of page p: "OCR<p>".
Description(p) == <<79, 67, 82>> \o Digits(p)

\* ------------------------------------------------------------------- state

VARIABLES
    file_bytes,      \* detect_text's arguments
    page_start,
    page_end,
    env,             \* the document behind the bytes, as the capabilities see it
    pc,              \* where the extraction call is
    extracted_text,  \* _extract_text_from_pdf_hybrid's local
    futures,         \* the executor's tasks, in submission order
    text_parts,      \* _extract_text_via_images' accumulator
    result,          \* detect_text's return value, once pc = "done"
    ocr_calls,       \* history: how often each image went to document_text_detection
    arrivals,        \* history: the page numbers in the order as_completed yielded them
    trace,           \* history: the steps the call has taken, in order
    all_images,      \* the pages convert_from_bytes turned into rasters
    probe,           \* the shape of the text of a call of _is_text_quality_good alone
    verdict,         \* the branch that call ended in
    _google_client,  \* google_client.py's module global
    constructed,     \* history: how many GoogleCloudClient objects have been made
    threads,         \* the threads that call get_google_client
    users,           \* database.py: the rows of the users table, in id order
    users_before,    \* history: the table before the last call of get_or_create_user
    request,         \* history: the arguments of that call
    calls,           \* history: how many calls have been made
    files,           \* drive_client.py: the user's files on Google Drive, in id order
    files_before,    \* history: the files before the last call of save_project
    last_save,       \* history: the arguments and the outcome of that call
    saves            \* history: how many calls have been made

vars == << file_bytes, page_start, page_end, env, pc, extracted_text, futures,
           text_parts, result, ocr_calls, arrivals, trace, all_images,
           probe, verdict, _google_client, constructed, threads,
           users, users_before, request, calls,
           files, files_before, last_save, saves >>

\* The state of get_google_client and its callers.
singleton == << _google_client, constructed, threads >>

\* The state of the users table and of the calls of get_or_create_user.
database == << users, users_before, request, calls >>

\* The state of the user's Drive and of the calls of save_project.
storage == << files, files_before, last_save, saves >>

\* The state outside VisionService, which its methods leave as it is.
modules == << singleton, database, storage >>

\* No one has called get_google_client.
SingletonIdle ==
    /\ _google_client = None
    /\ constructed = 0
    /\ threads = <<>>

\* No one has called get_or_create_user on an empty table.
DatabaseIdle ==
    /\ users = <<>>
    /\ users_before = <<>>
    /\ request = None
    /\ calls = 0

\* No one has called save_project on an empty Drive.
StorageIdle ==
    /\ files = <<>>
    /\ files_before = <<>>
    /\ last_save = None
    /\ saves = 0

ModulesIdle == SingletonIdle /\ DatabaseIdle /\ StorageIdle

\* The state of a call of the classifier alone, which detect_text leaves as it is.
classifier == << probe, verdict >>

inputs == << file_bytes, page_start, page_end, env >>

\* len(pdf.pages) and len(all_images)
total_pages == Len(env.pages)


\* The image the uploaded file itself is, on the image path; page p's raster is p.
UploadedImage == 0

\* --------------------------------------------------- the modelled inputs

\* Uploads that are not PDFs: short, almost-magic and image headers.
ImageHeaders ==
    { <<37>>, <<37, 80, 68>>, <<80, 68, 70, 37>>, <<37, 80, 68, 88, 70>>,
      <<32, 37, 80, 68, 70>>, <<137, 80, 78, 71>> }

\* "%PDF-": the head of a PDF file.
PdfHeader == PdfMagic \o <<45>>

\* pageStart / pageEnd: absent, or a number from below 1 to above the page count.
PageArgs == {None} \cup { Some(n) : n \in (-1)..(MaxPages + 1) }

\* The page ranges of the runs that vary the document and the service instead.
FewRanges == { <<None, None>>, <<Some(2), Some(3)>> }

\* n pages of one kind.
Uniform(kind, n) == [p \in 1..n |-> kind]

\* seq with position i replaced by v.
With(seq, i, v) == [seq EXCEPT ![i] = v]

\* Documents for the direct phase: every page of one kind, or all but one page,
\* which has no text or whose extraction raises.
Documents ==
    UNION { { Uniform(k, n) } \cup { With(Uniform(k, n), i, odd) : i \in 1..n, odd \in {"none", "throws"} }
            : k \in PageKinds, n \in 0..MaxPages }

\* OCR behaviours of an n-page document: the requests of any set of pages end
\* one way, those of the other pages recognise text.
Services(n) ==
    { [p \in 1..n |-> IF p \in odd THEN k ELSE "text"] :
        odd \in SUBSET (1..n), k \in OcrKinds \ {"text"} }

Env(opens, renders, pages, image_ocr, page_ocr) ==
    [ opens |-> opens, renders |-> renders, pages |-> pages,
      image_ocr |-> image_ocr, page_ocr |-> page_ocr ]

\* The shape of a text: spaces, "(cid:" patterns, control characters, letters
\* and line breaks and tabs, in this order.
Shape(lead, cids, ctrls, fill, trail) ==
    [ lead |-> lead, cids |-> cids, ctrls |-> ctrls, fill |-> fill, trail |-> trail ]

\* No call of the classifier alone.
NoProbe == Shape(0, 0, 0, 0, 0)

\* The texts the classifier is called on alone.
Probes ==
    { Shape(lead, cids, ctrls, fill, trail) :
        lead \in {0, MaxPad}, cids \in 0..MaxCids, ctrls \in 0..MaxCtrls,
        fill \in 0..MaxFill, trail \in {0, MaxPad} }

\* The text of a shape; the control character is SOH.
ProbeText(s) ==
    Rep(32, s.lead) \o Concat([i \in 1..s.cids |-> CidPattern]) \o Rep(1, s.ctrls)
        \o Rep(97, s.fill) \o [i \in 1..s.trail |-> <<NL, 9, 13>>[((i - 1) % 3) + 1]]

\* An upload that is empty or is no PDF: one image, any answer of the service.
InitImage ==
    /\ file_bytes \in ImageHeaders \cup {<<>>}
    /\ \E r \in FewRanges \cup { <<Some(1), None>> } : page_start = r[1] /\ page_end = r[2]
    /\ \E k \in OcrKinds \ {"encfail"} : env = Env(FALSE, FALSE, <<>>, k, <<>>)

\* The four magic bytes alone: neither capability can open such a file.
InitBareMagic ==
    /\ file_bytes = PdfMagic
    /\ \E r \in FewRanges : page_start = r[1] /\ page_end = r[2]
    /\ env = Env(FALSE, FALSE, <<>>, "error", <<>>)

\* PDFs that vary in their embedded text and in whether they open and render.
InitDocuments ==
    /\ file_bytes = PdfHeader
    /\ \E r \in FewRanges : page_start = r[1] /\ page_end = r[2]
    /\ \E pages \in Documents, opens \in BOOLEAN, renders \in BOOLEAN :
         env = Env(opens, renders, pages, "error", Uniform("text", Len(pages)))

\* Scanned PDFs (no embedded text) that vary in what the OCR service does.
InitServices ==
    /\ file_bytes = PdfHeader
    /\ \E r \in FewRanges : page_start = r[1] /\ page_end = r[2]
    /\ \E n \in 1..MaxPages : \E svc \in Services(n) :
         env = Env(TRUE, TRUE, Uniform("none", n), "error", svc)

\* Text-native and scanned PDFs under every page range.
InitRanges ==
    /\ file_bytes = PdfHeader
    /\ page_start \in PageArgs
    /\ page_end \in PageArgs
    /\ \E n \in 0..MaxPages, k \in {"none", "good"} :
         env = Env(TRUE, TRUE, Uniform(k, n), "error", Uniform("text", n))

\* detect_text has been called and has done nothing yet.
Entry ==
    /\ pc = "start"
    /\ extracted_text = <<>>
    /\ futures = <<>>
    /\ text_parts = <<>>
    /\ result = <<>>
    /\ ocr_calls = [i \in {UploadedImage} \cup (1..total_pages) |-> 0]
    /\ arrivals = <<>>
    /\ trace = <<>>
    /\ all_images = {}
    /\ probe = NoProbe
    /\ verdict = "none"
    /\ ModulesIdle

Init ==
    /\ \/ InitImage
       \/ InitBareMagic
       \/ InitDocuments
       \/ InitServices
       \/ InitRanges
    /\ Entry


\* ------------------------------ VisionService._extract_text_from_image

\* The text the image path returns for what the service did with the upload.
_extract_text_from_image(kind) ==
    CASE kind = "text"   -> Description(UploadedImage)   \* full_text if full_text else ""
      [] kind = "empty"  -> <<>>                         \* no text_annotations
      [] kind = "error"  -> <<>>                         \* response.error.message
      [] OTHER           -> <<>>                         \* except Exception: return ""

\* ------------------------ VisionService._extract_text_directly_from_pdf

\* start = max(1, page_start) if page_start else 1
DirectStart(ps) == IF Truthy(ps) THEN Max(1, ps[1]) ELSE 1

\* end = min(total_pages, page_end) if page_end else total_pages
DirectEnd(n, pe) == IF Truthy(pe) THEN Min(n, pe[1]) ELSE n

\* The page numbers the loop visits: range(start, end + 1).
DirectRange(n, ps, pe) == DirectStart(ps)..DirectEnd(n, pe)

RECURSIVE DirectParts_stops(_, _, _)
\* A slip in the loop: a page that raises ends it (break for continue).
DirectParts_stops(pages, page_num, end) ==
    IF page_num > end THEN <<>>
    ELSE LET kind == IF page_num - 1 < Len(pages) THEN pages[page_num] ELSE "throws"
         IN  IF kind = "throws" THEN <<>>
             ELSE (IF kind = "none" THEN <<>>
                   ELSE << PageBlock(page_num, PageText(kind, page_num)) >>)
                      \o DirectParts_stops(pages, page_num + 1, end)

RECURSIVE DirectParts(_, _, _)
\* text_parts after the loop has run from page_num to end: a page that raises
\* (extract_text, or pdf.pages[page_num - 1] out of range) or has no text adds nothing.
DirectParts(pages, page_num, end) ==
    IF page_num > end THEN <<>>
    ELSE LET kind == IF page_num - 1 < Len(pages) THEN pages[page_num] ELSE "throws"
             part == IF kind \in {"none", "throws"} THEN <<>>
                     ELSE << PageBlock(page_num, PageText(kind, page_num)) >>
         IN  part \o DirectParts(pages, page_num + 1, end)

_extract_text_directly_from_pdf(e, ps, pe) ==
    IF ~e.opens THEN <<>>     \* pdfplumber.open raises: except Exception: return ""
    ELSE JoinNL(DirectParts(e.pages, DirectStart(ps), DirectEnd(Len(e.pages), pe)))

\* ------------------------------- VisionService._extract_text_via_images

\* all_images = convert_from_bytes(pdf_bytes, dpi=300): no first_page or
\* last_page is passed, so every page of the document is turned into a raster.
convert_from_bytes(pages) == 1..Len(pages)

\* start = max(1, page_start) if page_start else 1
OcrStart(ps) == IF Truthy(ps) THEN Max(1, ps[1]) ELSE 1

\* end = min(total_pages, page_end) if page_end else total_pages
OcrEnd(n, pe) == IF Truthy(pe) THEN Min(n, pe[1]) ELSE n

\* images_to_process = all_images[start-1:end], as the pages whose rasters are kept.
ImagesToProcess(n, ps, pe) == SliceIndices(n, OcrStart(ps) - 1, OcrEnd(n, pe))

\* The i-th smallest element of a finite set of integers.
RECURSIVE Nth(_, _)
Nth(S, i) ==
    LET m == CHOOSE x \in S : \A y \in S : x <= y
    IN  IF i = 1 THEN m ELSE Nth(S \ {m}, i - 1)

\* The futures dict of executor.submit(self._extract_text_from_pil_image, img, start + idx):
\* task idx (from 0) holds the idx-th kept raster and is labelled page start + idx.
Submit(n, ps, pe) ==
    LET imgs == ImagesToProcess(n, ps, pe)
    IN  [ i \in 1..Cardinality(imgs) |->
            [ page_num |-> OcrStart(ps) + (i - 1), image |-> Nth(imgs, i),
              state |-> "queued", text |-> <<>> ] ]

\* "err": the text of an error message.
ErrorMessage == <<101, 114, 114>>

\* A slip in the handlers: a failed request returns the error's message, not "".
_extract_text_from_pil_image_message(kind, p) ==
    CASE kind = "text"   -> Description(p)
      [] kind = "empty"  -> <<>>
      [] OTHER           -> ErrorMessage

\* What _extract_text_from_pil_image returns for the raster of page p.
_extract_text_from_pil_image(kind, p) ==
    CASE kind = "text"   -> Description(p)   \* response.text_annotations[0].description
      [] kind = "empty"  -> <<>>             \* no text_annotations
      [] kind = "error"  -> <<>>             \* response.error.message
      [] OTHER           -> <<>>             \* except Exception: return ""

\* A slip in the merge: the sort is left out.
SortByPage_missing(parts) == parts

\* text_parts.sort(key=lambda x: x[0]): a stable sort. An entry comes after
\* those of a lower page number and those of its own that stood before it.
SortByPage(parts) ==
    LET n == Len(parts)
        place(i) == Cardinality({ j \in 1..n :
                        \/ parts[j][1] < parts[i][1]
                        \/ parts[j][1] = parts[i][1] /\ j <= i })
    IN  [ k \in 1..n |-> parts[CHOOSE i \in 1..n : place(i) = k] ]

\* A slip in the format: the blocks lack the newline that ends a direct block.
JoinBlocks_unterminated(parts) ==
    JoinNL([ i \in 1..Len(parts) |->
               MarkerHead \o Digits(parts[i][1]) \o MarkerTail \o <<NL>> \o parts[i][2] ])

\* "\n".join([f"--- Page {num} ---\n{text}\n" for num, text in text_parts])
JoinBlocks(parts) == JoinNL([ i \in 1..Len(parts) |-> PageBlock(parts[i][1], parts[i][2]) ])

\* ----------------------------------------------------------------- actions

\* The tasks a worker thread is running: their OCR request is in flight.
Running == { i \in 1..Len(futures) : futures[i].state = "running" }

\* detect_text: empty input returns "", the magic bytes pick the path.
DetectText ==
    /\ pc = "start"
    /\ IF file_bytes = <<>>
         THEN pc' = "done" /\ trace' = Append(trace, "empty")
         ELSE IF _is_pdf(file_bytes)
                THEN pc' = "direct" /\ trace' = Append(trace, "pdf")
                ELSE pc' = "image"  /\ trace' = Append(trace, "image")
    /\ result' = <<>>
    /\ UNCHANGED << inputs, modules, classifier, all_images, extracted_text, futures, text_parts, ocr_calls, arrivals >>

\* _extract_text_from_image: one document_text_detection request on the upload.
ExtractTextFromImage ==
    /\ pc = "image"
    /\ ocr_calls' = [ocr_calls EXCEPT ![UploadedImage] = @ + 1]
    /\ result' = _extract_text_from_image(env.image_ocr)
    /\ pc' = "done"
    /\ trace' = Append(trace, "ocr")
    /\ UNCHANGED << inputs, modules, classifier, all_images, extracted_text, futures, text_parts, arrivals >>

\* Phase 1 of _extract_text_from_pdf_hybrid: extracted_text = direct extraction.
ExtractTextDirectly ==
    /\ pc = "direct"
    /\ extracted_text' = _extract_text_directly_from_pdf(env, page_start, page_end)
    /\ pc' = "quality"
    /\ trace' = Append(trace, "direct")
    /\ UNCHANGED << inputs, modules, classifier, all_images, futures, text_parts, result, ocr_calls, arrivals >>

\* A slip in phase 1: the accepted text is kept but the return is missing.
EvaluateQuality_no_return ==
    /\ pc = "quality"
    /\ result' = IF extracted_text # <<>> /\ _is_text_quality_good(extracted_text)
                   THEN extracted_text ELSE result
    /\ pc' = "render"
    /\ trace' = Append(trace, "fallback")
    /\ UNCHANGED << inputs, modules, classifier, all_images, extracted_text, futures, text_parts, ocr_calls, arrivals >>

\* A slip in phase 1: any non-empty direct text is returned, unclassified.
EvaluateQuality_unclassified ==
    /\ pc = "quality"
    /\ IF extracted_text # <<>>
         THEN /\ result' = extracted_text
              /\ pc' = "done"
              /\ trace' = Append(trace, "accepted")
         ELSE /\ result' = result
              /\ pc' = "render"
              /\ trace' = Append(trace, "fallback")
    /\ UNCHANGED << inputs, modules, classifier, all_images, extracted_text, futures, text_parts, ocr_calls, arrivals >>

\* if extracted_text and self._is_text_quality_good(extracted_text): return it;
\* otherwise go on to phase 2.
EvaluateQuality ==
    /\ pc = "quality"
    /\ IF extracted_text # <<>> /\ _is_text_quality_good(extracted_text)
         THEN /\ result' = extracted_text
              /\ pc' = "done"
              /\ trace' = Append(trace, "accepted")
         ELSE /\ result' = result
              /\ pc' = "render"
              /\ trace' = Append(trace, "fallback")
    /\ UNCHANGED << inputs, modules, classifier, all_images, extracted_text, futures, text_parts, ocr_calls, arrivals >>

\* A slip in the failure path: when rendering fails the rejected direct text is returned.
ConvertAndSubmit_keeps_direct ==
    /\ pc = "render"
    /\ IF ~env.renders
         THEN /\ pc' = "done"
              /\ futures' = futures
              /\ trace' = Append(trace, "render_failed")
         ELSE LET tasks == Submit(total_pages, page_start, page_end)
              IN  IF tasks = <<>>
                    THEN /\ pc' = "done"
                         /\ futures' = futures
                         /\ trace' = trace \o << "render", "no_images" >>
                    ELSE /\ pc' = "fanout"
                         /\ futures' = tasks
                         /\ trace' = trace \o << "render", "fanout" >>
    /\ all_images' = IF env.renders THEN convert_from_bytes(env.pages) ELSE all_images
    /\ result' = IF env.renders THEN <<>> ELSE extracted_text
    /\ UNCHANGED << inputs, modules, classifier, extracted_text, text_parts, ocr_calls, arrivals >>

\* _extract_text_via_images up to the submits: convert_from_bytes renders every
\* page (a failure returns ""), the range is sliced out, no image to process
\* returns "", and one task per kept image is submitted.
ConvertAndSubmit ==
    /\ pc = "render"
    /\ IF ~env.renders
         THEN /\ pc' = "done"
              /\ futures' = futures
              /\ trace' = Append(trace, "render_failed")
         ELSE LET tasks == Submit(total_pages, page_start, page_end)
              IN  IF tasks = <<>>
                    THEN /\ pc' = "done"
                         /\ futures' = futures
                         /\ trace' = trace \o << "render", "no_images" >>
                    ELSE /\ pc' = "fanout"
                         /\ futures' = tasks
                         /\ trace' = trace \o << "render", "fanout" >>
    /\ all_images' = IF env.renders THEN convert_from_bytes(env.pages) ELSE all_images
    /\ result' = <<>>
    /\ UNCHANGED << inputs, modules, classifier, extracted_text, text_parts, ocr_calls, arrivals >>

\* A slip in the pool: each of the worker threads runs one task and ends.
WorkerStart_once(i) ==
    /\ pc = "fanout"
    /\ futures[i].state = "queued"
    /\ \A j \in 1..(i - 1) : futures[j].state # "queued"
    /\ i <= max_workers
    /\ IF env.page_ocr[futures[i].image] = "encfail"
         THEN /\ futures' = [futures EXCEPT
                                ![i].state = "finished",
                                ![i].text = _extract_text_from_pil_image("encfail", futures[i].image)]
              /\ ocr_calls' = ocr_calls
         ELSE /\ futures' = [futures EXCEPT ![i].state = "running"]
              /\ ocr_calls' = [ocr_calls EXCEPT ![futures[i].image] = @ + 1]
    /\ UNCHANGED << inputs, modules, classifier, all_images, pc, extracted_text, text_parts, result, arrivals, trace >>

\* A free worker thread takes the oldest queued task and runs
\* _extract_text_from_pil_image up to its request: pil_image.save may raise
\* (the task then ends with ""), otherwise the request goes out.
WorkerStart(i) ==
    /\ pc = "fanout"
    /\ futures[i].state = "queued"
    /\ \A j \in 1..(i - 1) : futures[j].state # "queued"
    /\ Cardinality(Running) < max_workers
    /\ IF env.page_ocr[futures[i].image] = "encfail"
         THEN /\ futures' = [futures EXCEPT
                                ![i].state = "finished",
                                ![i].text = _extract_text_from_pil_image("encfail", futures[i].image)]
              /\ ocr_calls' = ocr_calls
         ELSE /\ futures' = [futures EXCEPT ![i].state = "running"]
              /\ ocr_calls' = [ocr_calls EXCEPT ![futures[i].image] = @ + 1]
    /\ UNCHANGED << inputs, modules, classifier, all_images, pc, extracted_text, text_parts, result, arrivals, trace >>

\* A slip in the isolation: a failed request is not caught in the task nor
\* around future.result(), and ends the whole fan-out with "".
OcrReturn_aborts(i) ==
    /\ pc = "fanout"
    /\ futures[i].state = "running"
    /\ futures' = [futures EXCEPT ![i].state = "finished"]
    /\ IF env.page_ocr[futures[i].image] \in {"error", "raises"}
         THEN pc' = "done" /\ result' = <<>>
         ELSE pc' = pc /\ result' = result
    /\ UNCHANGED << inputs, modules, classifier, all_images, extracted_text, text_parts, ocr_calls, arrivals, trace >>

\* A slip in the worker: a request that raised is queued again.
OcrReturn_retries(i) ==
    /\ pc = "fanout"
    /\ futures[i].state = "running"
    /\ futures' = [futures EXCEPT
                     ![i].state = IF env.page_ocr[futures[i].image] = "raises"
                                    THEN "queued" ELSE "finished",
                     ![i].text = _extract_text_from_pil_image(
                                     env.page_ocr[futures[i].image], futures[i].image)]
    /\ UNCHANGED << inputs, modules, classifier, all_images, pc, extracted_text, text_parts, result, ocr_calls, arrivals, trace >>

\* The request of a running task returns or raises; the task's future is set.
OcrReturn(i) ==
    /\ pc = "fanout"
    /\ futures[i].state = "running"
    /\ futures' = [futures EXCEPT
                     ![i].state = "finished",
                     ![i].text = _extract_text_from_pil_image(
                                     env.page_ocr[futures[i].image], futures[i].image)]
    /\ UNCHANGED << inputs, modules, classifier, all_images, pc, extracted_text, text_parts, result, ocr_calls, arrivals, trace >>

\* A slip in the accumulation: each result replaces the ones gathered so far.
Collect_replaces(i) ==
    /\ pc = "fanout"
    /\ futures[i].state = "finished"
    /\ futures' = [futures EXCEPT ![i].state = "collected"]
    /\ text_parts' = IF futures[i].text # <<>>
                       THEN << << futures[i].page_num, futures[i].text >> >>
                       ELSE text_parts
    /\ arrivals' = Append(arrivals, futures[i].page_num)
    /\ UNCHANGED << inputs, modules, classifier, all_images, pc, extracted_text, result, ocr_calls, trace >>

\* One round of "for future in as_completed(futures)": a finished future is
\* taken, and its text, unless empty, is appended with its page number.
Collect(i) ==
    /\ pc = "fanout"
    /\ futures[i].state = "finished"
    /\ futures' = [futures EXCEPT ![i].state = "collected"]
    /\ text_parts' = IF futures[i].text # <<>>
                       THEN Append(text_parts, << futures[i].page_num, futures[i].text >>)
                       ELSE text_parts
    /\ arrivals' = Append(arrivals, futures[i].page_num)
    /\ UNCHANGED << inputs, modules, classifier, all_images, pc, extracted_text, result, ocr_calls, trace >>

\* as_completed has yielded every future.
AllCollected == \A i \in 1..Len(futures) : futures[i].state = "collected"

\* A slip in the fan-in: the merge does not wait for as_completed to run out.
MergeResults_early ==
    /\ pc = "fanout"
    /\ text_parts' = SortByPage(text_parts)
    /\ result' = JoinBlocks(text_parts')
    /\ pc' = "done"
    /\ trace' = Append(trace, "merged")
    /\ UNCHANGED << inputs, modules, classifier, all_images, extracted_text, futures, ocr_calls, arrivals >>

\* A slip in the return: the OCR blocks follow the rejected direct text.
MergeResults_after_direct ==
    /\ pc = "fanout"
    /\ AllCollected
    /\ text_parts' = SortByPage(text_parts)
    /\ result' = extracted_text \o JoinBlocks(text_parts')
    /\ pc' = "done"
    /\ trace' = Append(trace, "merged")
    /\ UNCHANGED << inputs, modules, classifier, all_images, extracted_text, futures, ocr_calls, arrivals >>

\* After the loop and the executor's shutdown: sort, join, return.
MergeResults ==
    /\ pc = "fanout"
    /\ AllCollected
    /\ text_parts' = SortByPage(text_parts)
    /\ result' = JoinBlocks(text_parts')
    /\ pc' = "done"
    /\ trace' = Append(trace, "merged")
    /\ UNCHANGED << inputs, modules, classifier, all_images, extracted_text, futures, ocr_calls, arrivals >>

Next ==
    \/ DetectText
    \/ ExtractTextFromImage
    \/ ExtractTextDirectly
    \/ EvaluateQuality
    \/ ConvertAndSubmit
    \/ \E i \in 1..Len(futures) : WorkerStart(i)
    \/ \E i \in 1..Len(futures) : OcrReturn(i)
    \/ \E i \in 1..Len(futures) : Collect(i)
    \/ MergeResults

Spec == Init /\ [][Next]_vars

\* The steps of the thread that called detect_text.
CallerStep ==
    \/ DetectText
    \/ ExtractTextFromImage
    \/ ExtractTextDirectly
    \/ EvaluateQuality
    \/ ConvertAndSubmit
    \/ \E i \in 1..Len(futures) : Collect(i)
    \/ MergeResults

\* The calling thread goes on while it can (its calls to pdfplumber, to
\* pdf2image and to the OCR of an uploaded image return or raise), an idle
\* worker of the pool takes the oldest queued task, and an OCR request that
\* is out returns or raises.
Fairness ==
    /\ WF_vars(CallerStep)
    /\ WF_vars(\E i \in 1..Len(futures) : WorkerStart(i))
    /\ WF_vars(\E i \in 1..Len(futures) : OcrReturn(i))

\* The calls whose termination is followed: uploaded images, and whole PDFs,
\* scanned or with good text, whose OCR requests all end in the same way.
InitUniform ==
    /\ file_bytes = PdfHeader
    /\ page_start = None
    /\ page_end = None
    /\ \E n \in 0..MaxPages, k \in {"none", "good"}, o \in OcrKinds,
          opens \in BOOLEAN, renders \in BOOLEAN :
         env = Env(opens, renders, Uniform(k, n), "error", Uniform(o, n))

LiveInit ==
    /\ InitImage \/ InitUniform
    /\ Entry

LiveSpec == LiveInit /\ [][Next]_vars /\ Fairness

\* ------------------------------- the classifier called on a text of its own

\* self._is_text_quality_good(text) about to be called on one of the probes.
ClassifierInit ==
    /\ probe \in Probes
    /\ verdict = "pending"
    /\ pc = "classify"
    /\ file_bytes = <<>>
    /\ page_start = None
    /\ page_end = None
    /\ env = Env(FALSE, FALSE, <<>>, "error", <<>>)
    /\ extracted_text = <<>>
    /\ futures = <<>>
    /\ text_parts = <<>>
    /\ result = <<>>
    /\ ocr_calls = [i \in {UploadedImage} |-> 0]
    /\ arrivals = <<>>
    /\ trace = <<>>
    /\ all_images = {}
    /\ ModulesIdle

\* The call runs to the branch it returns from.
Classify ==
    /\ pc = "classify"
    /\ verdict' = QualityVerdict(ProbeText(probe))
    /\ pc' = "classified"
    /\ UNCHANGED << inputs, modules, all_images, probe, extracted_text, futures, text_parts, result,
                    ocr_calls, arrivals, trace >>

\* The service takes a call of detect_text or a call of the classifier.
ServiceInit == Init \/ ClassifierInit

ServiceNext == Next \/ Classify

ServiceSpec == ServiceInit /\ [][ServiceNext]_vars

\* --------------------------------------------------------- get_google_client

\* The state of VisionService, which the other modules leave as it is.
pipeline == << file_bytes, page_start, page_end, env, pc, extracted_text, futures,
               text_parts, result, ocr_calls, arrivals, trace, all_images,
               probe, verdict >>

\* No method of VisionService has been called.
PipelineIdle ==
    /\ file_bytes = <<>>
    /\ page_start = None
    /\ page_end = None
    /\ env = Env(FALSE, FALSE, <<>>, "error", <<>>)
    /\ pc = "idle"
    /\ extracted_text = <<>>
    /\ futures = <<>>
    /\ text_parts = <<>>
    /\ result = <<>>
    /\ ocr_calls = [i \in {UploadedImage} |-> 0]
    /\ arrivals = <<>>
    /\ trace = <<>>
    /\ all_images = {}
    /\ probe = NoProbe
    /\ verdict = "none"

\* The request threads that call get_google_client.
Threads == 1..MaxThreads

\* The module has been imported (_google_client = None) and every thread is
\* about to call get_google_client.
SingletonInit ==
    /\ _google_client = None
    /\ constructed = 0
    /\ threads = [t \in Threads |-> [pc |-> "call", made |-> None, got |-> None]]
    /\ PipelineIdle
    /\ DatabaseIdle
    /\ StorageIdle

\* if _google_client is None:
CheckClient(t) ==
    /\ threads[t].pc = "call"
    /\ threads' = [threads EXCEPT
                     ![t].pc = IF _google_client = None THEN "construct" ELSE "return"]
    /\ UNCHANGED << pipeline, database, storage, _google_client, constructed >>

\* GoogleCloudClient(): a new object, on the thread's stack.
ConstructClient(t) ==
    /\ threads[t].pc = "construct"
    /\ constructed' = constructed + 1
    /\ threads' = [threads EXCEPT ![t].pc = "assign", ![t].made = Some(constructed')]
    /\ UNCHANGED << pipeline, database, storage, _google_client >>

\* _google_client = <the new object>
AssignClient(t) ==
    /\ threads[t].pc = "assign"
    /\ _google_client' = threads[t].made
    /\ threads' = [threads EXCEPT ![t].pc = "return"]
    /\ UNCHANGED << pipeline, database, storage, constructed >>

\* return _google_client
ReturnClient(t) ==
    /\ threads[t].pc = "return"
    /\ threads' = [threads EXCEPT ![t].pc = "returned", ![t].got = _google_client]
    /\ UNCHANGED << pipeline, database, storage, _google_client, constructed >>

SingletonNext ==
    \E t \in Threads :
        \/ CheckClient(t)
        \/ ConstructClient(t)
        \/ AssignClient(t)
        \/ ReturnClient(t)

SingletonSpec == SingletonInit /\ [][SingletonNext]_vars

\* ------------------------------------------- database.get_or_create_user

\* user_info.get("sub"): absent, or the id Google gives an account.
GoogleIds == { None, Some("g1"), Some("g2") }

\* user_info.get("email")
Emails == { Some("a@x"), Some("b@x") }

\* A token of the tokens dict: the key absent, an empty string, or a token.
TokenArgs == { None, Some(""), Some("tok") }

\* The tokens argument: None, or a dict with those two keys.
TokensArgs ==
    { None } \cup { Some([access_token |-> a, refresh_token |-> r]) : a \in TokenArgs, r \in TokenArgs }

\* Python truthiness of tokens.get(key): None and "" are falsy.
TokenGiven(tok) == tok # None /\ tok # Some("")

\* Python truthiness of the tokens dict: None and {} are falsy.
TokensGiven(tokens) ==
    tokens # None /\ (tokens[1].access_token # None \/ tokens[1].refresh_token # None)

\* encrypt_token: token_serializer.dumps(token), the token with its signature.
encrypt_token(token) == << "signed", token >>

\* User(google_id=..., email=..., ocr_credits=10, voice_credits_seconds=120,
\* first_project_created=0), the id given by the table on insert.
NewUser(id, google_id, email) ==
    [ id |-> id, google_id |-> google_id, email |-> email,
      access_token |-> None, refresh_token |-> None,
      ocr_credits |-> 10, voice_credits_seconds |-> 120, first_project_created |-> 0 ]

\* A slip in the token update: whatever the dict holds for a key is stored.
StoreTokens_always(user, tokens) ==
    IF ~TokensGiven(tokens) THEN user
    ELSE [ user EXCEPT
             !.access_token = IF tokens[1].access_token # None
                                THEN Some(encrypt_token(tokens[1].access_token[1])) ELSE None,
             !.refresh_token = IF tokens[1].refresh_token # None
                                 THEN Some(encrypt_token(tokens[1].refresh_token[1])) ELSE None ]

\* if tokens: a token that is given is encrypted and stored on the user.
StoreTokens(user, tokens) ==
    IF ~TokensGiven(tokens) THEN user
    ELSE [ user EXCEPT
             !.access_token = IF TokenGiven(tokens[1].access_token)
                                THEN Some(encrypt_token(tokens[1].access_token[1])) ELSE @,
             !.refresh_token = IF TokenGiven(tokens[1].refresh_token)
                                 THEN Some(encrypt_token(tokens[1].refresh_token[1])) ELSE @ ]

\* db.query(User).filter(User.google_id == google_id): the positions of the
\* matching rows (== None is IS NULL).
Matching(table, google_id) == { i \in 1..Len(table) : table[i].google_id = google_id }

\* A row as the rest of the application may have left it.
StoredRows ==
    { [ NewUser(1, Some("g1"), Some("a@x")) EXCEPT
          !.ocr_credits = c, !.first_project_created = f,
          !.access_token = t, !.refresh_token = t ] :
        c \in {10, 3}, f \in {0, 1}, t \in { None, Some(encrypt_token("old")) } }

\* The table is empty or holds one user; no call has been made.
DatabaseInit ==
    /\ users \in { <<>> } \cup { << row >> : row \in StoredRows }
    /\ users_before = <<>>
    /\ request = None
    /\ calls = 0
    /\ PipelineIdle
    /\ SingletonIdle
    /\ StorageIdle

\* get_or_create_user(db, user_info, tokens): query, create if absent, store
\* the tokens, add, commit.
GetOrCreateUser(google_id, email, tokens) ==
    /\ calls < MaxCalls
    /\ LET found == Matching(users, google_id)
           first == CHOOSE i \in found : \A j \in found : i <= j
           user  == IF found # {} THEN users[first]
                    ELSE NewUser(Len(users) + 1, google_id, email)
           saved == StoreTokens(user, tokens)
       IN  users' = IF found # {} THEN [users EXCEPT ![first] = saved]
                    ELSE Append(users, saved)
    /\ users_before' = users
    /\ request' = Some([google_id |-> google_id, email |-> email, tokens |-> tokens])
    /\ calls' = calls + 1
    /\ UNCHANGED << pipeline, singleton, storage >>

DatabaseNext ==
    \E google_id \in GoogleIds, email \in Emails, tokens \in TokensArgs :
        GetOrCreateUser(google_id, email, tokens)

DatabaseSpec == DatabaseInit /\ [][DatabaseNext]_vars

\* ------------------------------------------- drive_client.save_project

FOLDER_NAME == << "IndicScribe" >>

FolderMime == "application/vnd.google-apps.folder"

\* The parent of a file created without 'parents': the root of My Drive.
Root == 0

\* filename and content_json of a call.
Filenames == { "a", "b" }

Contents == { "c1", "c2" }

\* file_name and file_data: absent or given.
FileNames == { None, Some("scan.pdf") }

FileData == { None, Some("d") }

\* Where a Drive API call of save_project raises, if one does.
ProjectFaults == { "folder", "project" }

SourceFaults == { "subfolder", "source_list", "source_write" }

Faults == { "none" } \cup ProjectFaults \cup SourceFaults

\* json.dumps(content_json) as the bytes of the upload.
JsonContent(content_json) == << "json", content_json >>

\* f"IndicScribe_{filename}.json"
ProjectName(filename) == << "IndicScribe_", filename, ".json" >>

\* f"IndicScribe_{filename}_source_{file_name}"
SourceName(filename, file_name) == << "IndicScribe_", filename, "_source_", file_name >>

\* mimetypes.guess_type(file_name), 'application/octet-stream' if unknown.
MimeOf(file_name) ==
    IF file_name = "scan.pdf" THEN "application/pdf" ELSE "application/octet-stream"

\* base64.b64decode(file_data)
FileBytes(file_data) == << "bytes", file_data >>

\* if file_data and file_name: both given and non-empty.
HasSource(file_name, file_data) ==
    /\ file_data # None /\ file_data # Some("")
    /\ file_name # None /\ file_name # Some("")

\* files().list(..., pageSize=1): the first of the matching files.
First(found) == CHOOSE i \in found : \A j \in found : i <= j

\* files().create(body=..., media_body=...): Drive gives the file a new id.
CreateFile(fs, name, mime, parent, content) ==
    Append(fs, [ id |-> Len(fs) + 1, name |-> name, mime |-> mime,
                 parent |-> parent, content |-> content ])

\* get_or_create_indicscribe_folder: a folder of that name anywhere, else a
\* new one in the root.
get_or_create_indicscribe_folder(fs) ==
    LET found == { i \in 1..Len(fs) : fs[i].name = FOLDER_NAME /\ fs[i].mime = FolderMime }
    IN  IF found # {} THEN [ files |-> fs, id |-> fs[First(found)].id ]
        ELSE [ files |-> CreateFile(fs, FOLDER_NAME, FolderMime, Root, <<>>),
               id |-> Len(fs) + 1 ]

\* _get_or_create_subfolder: a folder of that name in the parent, else a new one.
_get_or_create_subfolder(fs, parent_folder_id, subfolder_name) ==
    LET found == { i \in 1..Len(fs) : /\ fs[i].parent = parent_folder_id
                                      /\ fs[i].name = subfolder_name
                                      /\ fs[i].mime = FolderMime }
    IN  IF found # {} THEN [ files |-> fs, id |-> fs[First(found)].id ]
        ELSE [ files |-> CreateFile(fs, subfolder_name, FolderMime, parent_folder_id, <<>>),
               id |-> Len(fs) + 1 ]

\* Lines 174-218: the project file is looked up by name in the folder, and
\* updated if it is there, created if not.
WriteProject(fs, folder_id, filename, content_json) ==
    LET found == { i \in 1..Len(fs) : /\ fs[i].parent = folder_id
                                      /\ fs[i].name = ProjectName(filename)
                                      /\ fs[i].mime = "application/json" }
    IN  IF found # {}
        THEN [ files |-> [fs EXCEPT ![First(found)].content = JsonContent(content_json)],
               id |-> fs[First(found)].id ]
        ELSE [ files |-> CreateFile(fs, ProjectName(filename), "application/json",
                                    folder_id, JsonContent(content_json)),
               id |-> Len(fs) + 1 ]

\* Lines 223-292: the source file goes to the subfolder uploaded_files; an
\* exception at any of the Drive calls is logged and ends the upload.
UploadSource(fs, folder_id, filename, file_name, file_data, fault) ==
    LET sub   == _get_or_create_subfolder(fs, folder_id, << "uploaded_files" >>)
        found == { i \in 1..Len(sub.files) :
                     /\ sub.files[i].parent = sub.id
                     /\ sub.files[i].name = SourceName(filename, file_name) }
        uploaded_file_id == sub.files[First(found)].id
    IN  IF fault = "subfolder"
          THEN [ files |-> fs, uploaded_file_id |-> None, uploaded_file_name |-> None ]
        ELSE IF fault = "source_list"
          THEN [ files |-> sub.files, uploaded_file_id |-> None, uploaded_file_name |-> None ]
        ELSE IF found # {}
          THEN IF fault = "source_write"
                 THEN [ files |-> sub.files,
                        uploaded_file_id |-> Some(uploaded_file_id),
                        uploaded_file_name |-> None ]
                 ELSE [ files |-> [sub.files EXCEPT
                                     ![First(found)].content = FileBytes(file_data)],
                        uploaded_file_id |-> Some(uploaded_file_id),
                        uploaded_file_name |-> Some(file_name) ]
        ELSE IF fault = "source_write"
          THEN [ files |-> sub.files, uploaded_file_id |-> None, uploaded_file_name |-> None ]
        ELSE [ files |-> CreateFile(sub.files, SourceName(filename, file_name),
                                    MimeOf(file_name), sub.id, FileBytes(file_data)),
               uploaded_file_id |-> Some(Len(sub.files) + 1),
               uploaded_file_name |-> Some(file_name) ]

\* The Drive of a user: empty, with the folder, or with a project saved before.
DriveInit ==
    /\ files \in
         { <<>>,
           CreateFile(<<>>, FOLDER_NAME, FolderMime, Root, <<>>),
           CreateFile(CreateFile(<<>>, FOLDER_NAME, FolderMime, Root, <<>>),
                      ProjectName("a"), "application/json", 1, JsonContent("c0")) }
    /\ files_before = <<>>
    /\ last_save = None
    /\ saves = 0
    /\ PipelineIdle
    /\ SingletonIdle
    /\ DatabaseIdle

\* save_project(user, filename, content_json, file_name, file_data), with
\* the Drive call that raises, if any.
SaveProject(filename, content_json, file_name, file_data, fault) ==
    /\ saves < MaxSaves
    /\ fault \in SourceFaults => HasSource(file_name, file_data)
    /\ LET folder  == get_or_create_indicscribe_folder(files)
           project == WriteProject(folder.files, folder.id, filename, content_json)
           source  == IF HasSource(file_name, file_data)
                        THEN UploadSource(project.files, folder.id, filename,
                                          file_name[1], file_data[1], fault)
                        ELSE [ files |-> project.files,
                               uploaded_file_id |-> None, uploaded_file_name |-> None ]
           call    == [ filename |-> filename, content_json |-> content_json,
                        file_name |-> file_name, file_data |-> file_data, fault |-> fault ]
       IN  IF fault = "folder"
             THEN /\ files' = files
                  /\ last_save' = Some([ call |-> call, outcome |-> "raised", result |-> None ])
           ELSE IF fault = "project"
             THEN /\ files' = folder.files
                  /\ last_save' = Some([ call |-> call, outcome |-> "raised", result |-> None ])
           ELSE /\ files' = source.files
                /\ last_save' =
                     Some([ call |-> call, outcome |-> "returned",
                            result |-> Some([ id |-> project.id,
                                              name |-> ProjectName(filename),
                                              uploaded_file_id |-> source.uploaded_file_id,
                                              uploaded_file_name |-> source.uploaded_file_name ]) ])
    /\ files_before' = files
    /\ saves' = saves + 1
    /\ UNCHANGED << pipeline, singleton, database >>

DriveNext ==
    \E filename \in Filenames, content_json \in Contents,
       file_name \in FileNames, file_data \in FileData, fault \in Faults :
        SaveProject(filename, content_json, file_name, file_data, fault)

DriveSpec == DriveInit /\ [][DriveNext]_vars


\* ======================================================================
\* Properties
\* ======================================================================

\* The set of entries of a sequence.
Range(seq) == { seq[i] : i \in 1..Len(seq) }

\* The number of entries of seq that are in S.
Count(seq, S) == Cardinality({ i \in 1..Len(seq) : seq[i] \in S })

\* The upload starts with the bytes '%', 'P', 'D', 'F'.
HasPdfSignature ==
    /\ Len(file_bytes) >= 4
    /\ file_bytes[1] = 37 /\ file_bytes[2] = 80 /\ file_bytes[3] = 68 /\ file_bytes[4] = 70

\* A string: a sequence of character codes.
IsString(t) == DOMAIN t = 1..Len(t) /\ \A i \in 1..Len(t) : t[i] \in 0..1114111

\* The ways an OCR task fails.
OcrFailures == {"error", "raises", "encfail"}

\* How often rendering was attempted.
RenderAttempts == Count(trace, {"render", "render_failed"})

\* The requests made for page rasters.
PageRequests == { p \in 1..total_pages : ocr_calls[p] > 0 }

\* Nothing of the call produced text: the input was empty, the one request of
\* the image path failed, or the PDF fell back to OCR and then rendering
\* failed or every page's task failed.
PipelineFailed ==
    \/ file_bytes = <<>>
    \/ /\ ~HasPdfSignature
       /\ env.image_ocr \in OcrFailures
    \/ /\ HasPdfSignature
       /\ "fallback" \in Range(trace)
       /\ \/ ~env.renders
          \/ /\ futures # <<>>
             /\ \A i \in 1..Len(futures) : env.page_ocr[futures[i].image] \in OcrFailures

\* Some step of the call is enabled (MergeResults is, by its guard, once every
\* future is collected).
CanGoOn ==
    \/ ENABLED ( \/ DetectText
                 \/ ExtractTextFromImage
                 \/ ExtractTextDirectly
                 \/ EvaluateQuality
                 \/ ConvertAndSubmit
                 \/ \E i \in 1..Len(futures) : WorkerStart(i)
                 \/ \E i \in 1..Len(futures) : OcrReturn(i)
                 \/ \E i \in 1..Len(futures) : Collect(i) )
    \/ pc = "fanout" /\ AllCollected

\* C1: detect_text never lets an exception escape: from every state short of
\* the return the call can go on, what it returns is a string, and the string
\* is empty when the whole pipeline failed.
C1_NeverThrows ==
    /\ pc # "done" => CanGoOn
    /\ pc = "done" => /\ IsString(result)
                      /\ PipelineFailed => result = <<>>

\* C1 witness: a scanned PDF of several pages whose every OCR task failed, one
\* of them by raising, has returned.
C1_Witness ==
    /\ pc = "done"
    /\ HasPdfSignature
    /\ Len(futures) >= 2
    /\ PipelineFailed
    /\ \E i \in 1..Len(futures) : env.page_ocr[futures[i].image] = "raises"
    /\ result = <<>>

\* C2: the free path: once the classifier has accepted the direct text of a
\* PDF, no OCR request is ever made, no task is submitted and no page is rendered.
C2_FreePath ==
    (HasPdfSignature /\ _is_text_quality_good(extracted_text)) =>
        /\ \A i \in DOMAIN ocr_calls : ocr_calls[i] = 0
        /\ futures = <<>>
        /\ RenderAttempts = 0

\* C2 witness: a PDF call has returned direct text the classifier accepts.
C2_Witness ==
    /\ pc = "done"
    /\ HasPdfSignature
    /\ _is_text_quality_good(extracted_text)
    /\ result = extracted_text

\* The steps only the PDF path takes.
PdfSteps == {"pdf", "direct", "accepted", "fallback", "render", "render_failed",
             "no_images", "fanout", "merged"}

\* C3: routing by magic bytes: a non-empty upload takes the PDF path iff its
\* first four bytes are '%PDF'; any other takes the image path, which never
\* extracts directly, classifies or renders, makes exactly one OCR request (on
\* the upload itself) and returns what that request gives whatever the page range.
C3_Routing ==
    (pc # "start" /\ file_bytes # <<>>) =>
        /\ ("pdf" \in Range(trace)) <=> HasPdfSignature
        /\ HasPdfSignature => ocr_calls[UploadedImage] = 0
        /\ ~HasPdfSignature =>
              /\ Range(trace) \cap PdfSteps = {}
              /\ extracted_text = <<>> /\ futures = <<>>
              /\ PageRequests = {}
              /\ ocr_calls[UploadedImage] = (IF pc = "done" THEN 1 ELSE 0)
              /\ pc = "done" =>
                    result = (IF env.image_ocr = "text" THEN Description(UploadedImage) ELSE <<>>)

\* C3 witness: an upload of three bytes, '%PD', with a page range, has returned
\* after its one request.
C3_Witness ==
    /\ pc = "done"
    /\ file_bytes = <<37, 80, 68>>
    /\ page_start # None
    /\ ocr_calls[UploadedImage] = 1
    /\ result # <<>>


\* ------------------------------------------------- reading the output back

\* The positions of text where a page marker starts: "--- Page " at the start
\* of a line.
MarkerStarts(text) ==
    { i \in 1..(Len(text) - 8) :
        /\ SubSeq(text, i, i + 8) = MarkerHead
        /\ i = 1 \/ text[i - 1] = NL }

RECURSIVE ParseNat(_, _, _)
\* The number whose decimal digits start at position i of text, acc so far.
ParseNat(text, i, acc) ==
    IF i <= Len(text) /\ text[i] \in 48..57
      THEN ParseNat(text, i + 1, acc * 10 + (text[i] - 48))
      ELSE acc

\* The first position from i on that holds a newline (Len + 1 if none).
RECURSIVE LineEnd(_, _)
LineEnd(text, i) == IF i > Len(text) \/ text[i] = NL THEN i ELSE LineEnd(text, i + 1)

\* The blocks of an output, in the order they stand in it, each << page
\* number, text >>: a block runs from its marker to the newline that ends it,
\* which is followed by the joining newline and the next marker, or by nothing.
Blocks(text) ==
    LET starts == MarkerStarts(text)
        n == Cardinality(starts)
        at(k) == Nth(starts, k)
        stop(k) == IF k = n THEN Len(text) ELSE Nth(starts, k + 1) - 2
    IN  [ k \in 1..n |->
            << ParseNat(text, at(k) + 9, 0),
               SubSeq(text, LineEnd(text, at(k)) + 1, stop(k) - 1) >> ]

\* The page numbers of the markers of an output, in the order they stand in it.
MarkerPages(text) == LET b == Blocks(text) IN [ k \in 1..Len(b) |-> b[k][1] ]

\* A sequence of numbers strictly ascends.
Ascending(seq) == \A i \in 1..(Len(seq) - 1) : seq[i] < seq[i + 1]


\* The call fell back to OCR and the renderer produced its images.
FellBackAndRendered == HasPdfSignature /\ "render" \in Range(trace)

\* The page range the code announces ("Processing pages {start} to {end}"):
\* the start raised to 1, the end lowered to the page count, absent or zero
\* bounds standing for the first and the last page.
EffectiveRange ==
    LET lo == IF page_start = None \/ page_start[1] = 0 THEN 1 ELSE Max(1, page_start[1])
        hi == IF page_end = None \/ page_end[1] = 0 THEN total_pages
              ELSE Min(total_pages, page_end[1])
    IN  { p \in 1..total_pages : lo <= p /\ p <= hi }

TextTasks == { i \in 1..Len(futures) : env.page_ocr[futures[i].image] = "text" }

\* C5: merge ordering: whatever the order in which the tasks completed, the
\* blocks of the merged output are those of the pages that gave text, in
\* strictly ascending page-number order.
C5_MergeOrdering ==
    (pc = "done" /\ "merged" \in Range(trace)) =>
        /\ Ascending(MarkerPages(result))
        /\ Range(MarkerPages(result)) = { futures[i].page_num : i \in TextTasks }

\* C5 witness: the tasks of pages 1..3 completed as 3, 1, 2 and the output
\* holds them as 1, 2, 3.
C5_Witness ==
    /\ pc = "done"
    /\ arrivals = << 3, 1, 2 >>
    /\ MarkerPages(result) = << 1, 2, 3 >>

\* C7: per-page isolation: after a fan-out in which the request of some page
\* raised or reported an error, the output has no block for that page, every
\* other page of the fan-out had its request made, and every sibling whose
\* OCR gave text has its block, with that text, in the output.
C7_FailureIsolation ==
    (pc = "done" /\ "fanout" \in Range(trace)) =>
        \A i \in 1..Len(futures) :
            env.page_ocr[futures[i].image] \in {"error", "raises"} =>
                /\ futures[i].page_num \notin Range(MarkerPages(result))
                /\ \A j \in 1..Len(futures) \ {i} :
                      /\ env.page_ocr[futures[j].image] # "encfail" =>
                            ocr_calls[futures[j].image] = 1
                      /\ j \in TextTasks =>
                            << futures[j].page_num, Description(futures[j].image) >>
                                \in Range(Blocks(result))

\* C7 witness: of three pages the request of the second raised; the output
\* holds the blocks of the first and the third.
C7_Witness ==
    /\ pc = "done"
    /\ Len(futures) = 3
    /\ env.page_ocr[futures[2].image] = "raises"
    /\ MarkerPages(result) = << futures[1].page_num, futures[3].page_num >>


\* A bound clamped into [1, totalPages]; an absent bound stays absent.
Clamped(a) == IF a = None THEN None ELSE Some(Min(Max(a[1], 1), total_pages))

\* What the hybrid pipeline returns for the document at hand under the page
\* range ps, pe: the accepted direct text, or the merged texts of the tasks
\* submitted for that range.
HybridOutput(ps, pe) ==
    LET direct == _extract_text_directly_from_pdf(env, ps, pe)
        tasks == Submit(total_pages, ps, pe)
        texts == [ i \in 1..Len(tasks) |->
                     << tasks[i].page_num,
                        _extract_text_from_pil_image(env.page_ocr[tasks[i].image], tasks[i].image) >> ]
        kept == { i \in 1..Len(tasks) : texts[i][2] # <<>> }
    IN  IF direct # <<>> /\ _is_text_quality_good(direct) THEN direct
        ELSE IF ~env.renders THEN <<>>
        ELSE JoinBlocks([ k \in 1..Cardinality(kept) |-> texts[Nth(kept, k)] ])

\* C6 (as claimed): page-range clamping: on a PDF of at least one page the
\* call returns what it returns with both bounds first clamped into
\* [1, totalPages], and no page number outside [1, totalPages] is used by
\* the direct loop or by a task.
C6_RangeClamping ==
    (pc = "done" /\ HasPdfSignature /\ total_pages >= 1) =>
        /\ result = HybridOutput(Clamped(page_start), Clamped(page_end))
        /\ env.opens => DirectRange(total_pages, page_start, page_end) \subseteq 1..total_pages
        /\ \A i \in 1..Len(futures) :
              futures[i].page_num \in 1..total_pages /\ futures[i].image \in 1..total_pages

\* C8: fallback transition: a PDF call whose direct text is empty (extraction
\* failed, or found nothing) or rejected by the classifier has, when it
\* returns, fallen back once and attempted the rendering once; where the
\* rendering succeeded and the range holds an image it went through the OCR
\* fan-out of those images to the merge; and it has not returned the rejected
\* direct text.
C8_FallbackTransition ==
    (pc = "done" /\ HasPdfSignature /\ ~_is_text_quality_good(extracted_text)) =>
        /\ Count(trace, {"fallback"}) = 1
        /\ "accepted" \notin Range(trace)
        /\ RenderAttempts = 1
        /\ (env.renders /\ ImagesToProcess(total_pages, page_start, page_end) # {}) =>
              /\ "fanout" \in Range(trace) /\ "merged" \in Range(trace)
              /\ { futures[i].image : i \in 1..Len(futures) }
                    = ImagesToProcess(total_pages, page_start, page_end)
              /\ AllCollected
        /\ extracted_text # <<>> => result # extracted_text

\* C8 witness: CID garbage was extracted, rejected, and the call returned the
\* merged OCR text instead.
C8_Witness ==
    /\ pc = "done"
    /\ HasPdfSignature
    /\ CountCid(extracted_text) > 0
    /\ "merged" \in Range(trace)
    /\ result # <<>>

\* The place of a step in the order of the phases.
PhaseRank(step) ==
    CASE step \in {"pdf", "image", "empty"}     -> 0
      [] step = "direct"                        -> 1
      [] step \in {"accepted", "fallback"}      -> 2
      [] step \in {"render", "render_failed"}   -> 3
      [] step \in {"fanout", "no_images", "ocr"} -> 4
      [] OTHER                                  -> 5

\* C9: no retry: in every state of a call, direct extraction has been
\* attempted at most once, rendering at most once, each image has gone to
\* the OCR service at most once, and the steps taken stand in the order
\* direct, quality, render, fan-out, merge, none of them twice.
C9_NoRetry ==
    /\ Count(trace, {"direct"}) <= 1
    /\ RenderAttempts <= 1
    /\ \A i \in DOMAIN ocr_calls : ocr_calls[i] <= 1
    /\ \A i, j \in 1..Len(trace) : i < j => PhaseRank(trace[i]) < PhaseRank(trace[j])

\* C9 witness: a call whose direct extraction found no text and one of whose
\* OCR requests raised has merged and returned, that page requested once.
C9_Witness ==
    /\ pc = "done"
    /\ "merged" \in Range(trace)
    /\ Len(futures) >= 2
    /\ \E i \in 1..Len(futures) :
          env.page_ocr[futures[i].image] = "raises" /\ ocr_calls[futures[i].image] = 1

\* C10: bounded OCR concurrency: the fan-out has one task for each image of
\* the range, and in every state at most 3 OCR requests are in flight.
C10_BoundedConcurrency ==
    /\ Cardinality(Running) <= 3
    /\ "fanout" \in Range(trace) =>
          /\ Len(futures) = Cardinality(ImagesToProcess(total_pages, page_start, page_end))
          /\ { futures[i].image : i \in 1..Len(futures) }
                = ImagesToProcess(total_pages, page_start, page_end)

\* C10 witness: three requests are in flight while a fourth task waits in the queue.
C10_Witness ==
    /\ Cardinality(Running) = 3
    /\ \E i \in 1..Len(futures) : futures[i].state = "queued"

\* ------------------------------------------------ the quality classifier

\* The length of the text of a shape, and its length without the whitespace
\* at its two ends (the "(cid:" pattern has five characters).
ProbeLen(s) == s.lead + 5 * s.cids + s.ctrls + s.fill + s.trail

ProbeTrimmedLen(s) == 5 * s.cids + s.ctrls + s.fill

\* The length of a text from its first to its last character that is not whitespace.
TrimmedLen(text) ==
    LET core == { i \in DOMAIN text : text[i] \notin Whitespace }
    IN  IF core = {} THEN 0
        ELSE (CHOOSE i \in core : \A j \in core : j <= i)
                - (CHOOSE i \in core : \A j \in core : i <= j) + 1

\* The quality gate of the hybrid extraction has judged the extracted text.
Judged == "accepted" \in Range(trace) \/ "fallback" \in Range(trace)

\* C11: minimum length: the classifier rejects as too short exactly the
\* texts that are empty or whose trimmed length is below 50, whatever
\* "(cid:" patterns or control characters they hold; and in the pipeline a
\* text the gate accepted has a trimmed length of at least 50, while one it
\* turned down at that length holds too many "(cid:" patterns or control
\* characters: no other length decides anywhere.
C11_MinimumLength ==
    /\ pc = "classified" =>
          (verdict = "too_short" <=> ProbeTrimmedLen(probe) < 50)
    /\ "accepted" \in Range(trace) => TrimmedLen(extracted_text) >= 50
    /\ ("fallback" \in Range(trace) /\ TrimmedLen(extracted_text) >= 50) =>
          \/ CountCid(extracted_text) * 100 > 5 * Len(extracted_text)
          \/ CountControl(extracted_text) * 100 > 10 * Len(extracted_text)

\* C11 witness: a text of more than 50 characters, with "(cid:" patterns and
\* control characters in it, whose trimmed length is 49, was rejected as too short.
C11_Witness ==
    /\ pc = "classified"
    /\ verdict = "too_short"
    /\ ProbeLen(probe) > 50
    /\ ProbeTrimmedLen(probe) = 49
    /\ probe.cids > 0
    /\ probe.ctrls > 0

\* C12: CID rule: a text that passes the length rule is rejected for its
\* "(cid:" patterns exactly when their number is strictly more than 5% of the
\* length of the whole, untrimmed text; at exactly 5% or less this rule does
\* not reject it.
C12_CidRule ==
    (pc = "classified" /\ ProbeTrimmedLen(probe) >= 50) =>
        (verdict = "cid" <=> probe.cids * 100 > 5 * ProbeLen(probe))

\* C12 witness: a padded text whose "(cid:" patterns are exactly 5% of its
\* whole length has passed the CID rule.
C12_Witness ==
    /\ pc = "classified"
    /\ probe.cids > 0
    /\ probe.lead + probe.trail > 0
    /\ probe.cids * 100 = 5 * ProbeLen(probe)
    /\ verdict \in {"control", "good"}

\* C13: control-character rule and final accept: a text that passes the
\* length and CID rules is rejected for its control characters exactly when
\* the characters below 32 other than newline, tab and carriage return are
\* strictly more than 10% of its whole length; a text is accepted exactly
\* when none of the three rules rejects it.
C13_ControlRule ==
    pc = "classified" =>
        LET short    == ProbeTrimmedLen(probe) < 50
            cidOver  == probe.cids * 100 > 5 * ProbeLen(probe)
            ctrlOver == probe.ctrls * 100 > 10 * ProbeLen(probe)
        IN  /\ verdict = "control" <=> (~short /\ ~cidOver /\ ctrlOver)
            /\ verdict = "good" <=> (~short /\ ~cidOver /\ ~ctrlOver)

\* C13 witness: a text ending in a newline, a tab and a carriage return whose
\* other control characters are exactly 10% of its length was accepted.
C13_Witness ==
    /\ pc = "classified"
    /\ probe.ctrls > 0
    /\ probe.trail > 0
    /\ probe.ctrls * 100 = 10 * ProbeLen(probe)
    /\ verdict = "good"

\* ------------------------------------------------------ the merged output

\* How many of the gathered results, and of the blocks of an output, are of page p.
Gathered(p) == Cardinality({ k \in 1..Len(text_parts) : text_parts[k][1] = p })

BlocksOf(text, p) == LET b == Blocks(text) IN Cardinality({ k \in 1..Len(b) : b[k][1] = p })

\* The pages of the tasks whose OCR gave text, in the order of submission.
TextPagesInOrder ==
    LET kept == TextTasks
    IN  [ k \in 1..Cardinality(kept) |-> futures[Nth(kept, k)].page_num ]

\* C14: one block per page with text: at every moment of the fan-in each
\* task yielded so far whose OCR gave text stands exactly once among the
\* gathered results and no other task stands there at all; the merged output
\* holds exactly one block, with its text, for each page whose OCR gave text,
\* no block for a page whose OCR gave none or failed, and the blocks follow
\* one another as their pages do with the other pages left out.
C14_OneBlockPerTextPage ==
    /\ "fanout" \in Range(trace) =>
          \A i \in 1..Len(futures) :
              Gathered(futures[i].page_num)
                  = (IF futures[i].state = "collected" /\ i \in TextTasks THEN 1 ELSE 0)
    /\ (pc = "done" /\ "merged" \in Range(trace)) =>
          /\ \A i \in 1..Len(futures) :
                /\ BlocksOf(result, futures[i].page_num) = (IF i \in TextTasks THEN 1 ELSE 0)
                /\ i \in TextTasks =>
                      << futures[i].page_num, Description(futures[i].image) >>
                          \in Range(Blocks(result))
          /\ MarkerPages(result) = TextPagesInOrder

\* C14 witness: of four pages the second and the third gave no text; the
\* results arrived last page first and the output holds pages 1 and 4.
C14_Witness ==
    /\ pc = "done"
    /\ Len(futures) = 4
    /\ arrivals[1] = futures[4].page_num
    /\ env.page_ocr[futures[2].image] = "empty"
    /\ env.page_ocr[futures[3].image] = "empty"
    /\ MarkerPages(result) = << futures[1].page_num, futures[4].page_num >>

\* Every block of the text is the embedded text of its page.
AllEmbedded(text) ==
    \A b \in Range(Blocks(text)) :
        b[1] \in 1..total_pages /\ b[2] = PageText(env.pages[b[1]], b[1])

\* Every block of the text is what the OCR of the image of a task gave.
AllRecognised(text) ==
    \A b \in Range(Blocks(text)) :
        \E i \in 1..Len(futures) :
            futures[i].page_num = b[1] /\ b[2] = Description(futures[i].image)

\* C15: output provenance: a finished PDF call took exactly one of the two
\* ways. If the gate accepted, the result is the direct extractor's output,
\* every block the embedded text of its page, and nothing was rendered or
\* sent to OCR; otherwise the result is the merged OCR output (empty if
\* nothing was merged), every block what OCR gave for its page.
C15_Provenance ==
    (pc = "done" /\ HasPdfSignature) =>
        /\ Count(trace, {"accepted", "fallback"}) = 1
        /\ "accepted" \in Range(trace) =>
              /\ result = _extract_text_directly_from_pdf(env, page_start, page_end)
              /\ AllEmbedded(result)
              /\ RenderAttempts = 0
              /\ \A i \in DOMAIN ocr_calls : ocr_calls[i] = 0
        /\ "fallback" \in Range(trace) =>
              /\ result = (IF "merged" \in Range(trace) THEN JoinBlocks(text_parts) ELSE <<>>)
              /\ AllRecognised(result)

\* C15 witness: the direct text of a document was not empty but rejected,
\* and the result holds one OCR block for each of its pages.
C15_Witness ==
    /\ pc = "done"
    /\ extracted_text # <<>>
    /\ "fallback" \in Range(trace)
    /\ total_pages >= 2
    /\ Len(Blocks(result)) = total_pages

\* --------------------------------------------------- the direct extraction

\* The pages of the range the direct loop visits whose extraction raises, and
\* those that have embedded text.
ThrowingPages ==
    { p \in DirectRange(total_pages, page_start, page_end) : env.pages[p] = "throws" }

PagesWithText ==
    { p \in DirectRange(total_pages, page_start, page_end) :
        env.pages[p] \notin {"throws", "none"} }

\* C16: direct-extraction page isolation: when the extraction of a page of
\* the range raised, the direct text has no block for that page and has, in
\* ascending page order, one block for every other page of the range that
\* has embedded text, each under its own marker and holding that page's text.
C16_DirectPageIsolation ==
    ("direct" \in Range(trace) /\ env.opens /\ ThrowingPages # {}) =>
        Blocks(extracted_text)
            = [ k \in 1..Cardinality(PagesWithText) |->
                  LET p == Nth(PagesWithText, k) IN << p, PageText(env.pages[p], p) >> ]

\* C16 witness: the extraction of page 2 of a three-page document raised and
\* the direct text holds the blocks of pages 1 and 3.
C16_Witness ==
    /\ "direct" \in Range(trace)
    /\ total_pages = 3
    /\ ThrowingPages = {2}
    /\ MarkerPages(extracted_text) = << 1, 3 >>

\* -------------------------------------------------------------- rendering

\* C17 (as claimed): the renderer rasterizes only the requested sub-range:
\* once the OCR fallback has rendered, the pages turned into rasters are
\* exactly those of the effective page range.
C17_RendersOnlyRange ==
    (HasPdfSignature /\ "render" \in Range(trace)) => all_images = EffectiveRange

\* ------------------------------------------------- the format of the blocks

\* What the direct path makes of per-page texts << page number, text >>: the
\* block of line 189 for each, joined as at line 197.
DirectFormat(parts) == JoinNL([ k \in 1..Len(parts) |-> PageBlock(parts[k][1], parts[k][2]) ])

\* The pages whose OCR gave text, each with that text, in page order.
RecognisedPages ==
    LET kept == { futures[i].image : i \in TextTasks }
    IN  [ k \in 1..Cardinality(kept) |-> << Nth(kept, k), Description(Nth(kept, k)) >> ]

\* "--- Page 2 ---", a newline, "OCR2" and a newline.
Page2Block ==
    << 45, 45, 45, 32, 80, 97, 103, 101, 32, 50, 32, 45, 45, 45, 10, 79, 67, 82, 50, 10 >>

\* C18: OCR-path format and numbering: every task is labelled with the number
\* its page has in the document (the start of the range plus its position in
\* it), each block of the merged output is "--- Page N ---", a newline and
\* the text of page N, and the output is the very string the direct path
\* makes of the same per-page texts.
C18_SameFormat ==
    /\ \A i \in 1..Len(futures) :
          /\ futures[i].page_num = futures[i].image
          /\ futures[i].page_num = futures[1].page_num + (i - 1)
    /\ (pc = "done" /\ "merged" \in Range(trace)) =>
          /\ result = DirectFormat(RecognisedPages)
          /\ Blocks(result) = RecognisedPages
          /\ RecognisedPages = << << 2, Description(2) >> >> => result = Page2Block

\* C18 witness: pages 2 and 3 of a four-page scanned document were asked
\* for; the blocks of the output are numbered 2 and 3.
C18_Witness ==
    /\ pc = "done"
    /\ total_pages = 4
    /\ page_start = Some(2)
    /\ page_end = Some(3)
    /\ MarkerPages(result) = << 2, 3 >>
    /\ result = DirectFormat(<< << 2, Description(2) >>, << 3, Description(3) >> >>)

\* C19: render failure is total and final: once rendering has failed, the
\* call has returned the empty string, that failure was its last step and
\* its only rendering attempt, no raster and no page result exists, no task
\* was submitted and no OCR request was made.
C19_RenderFailure ==
    "render_failed" \in Range(trace) =>
        /\ pc = "done"
        /\ result = <<>>
        /\ trace[Len(trace)] = "render_failed"
        /\ RenderAttempts = 1
        /\ all_images = {}
        /\ futures = <<>>
        /\ text_parts = <<>>
        /\ \A i \in DOMAIN ocr_calls : ocr_calls[i] = 0

\* C19 witness: the direct text of a three-page document was rejected though
\* not empty, rendering failed, and the call returned the empty string.
C19_Witness ==
    /\ "render_failed" \in Range(trace)
    /\ pc = "done"
    /\ total_pages = 3
    /\ extracted_text # <<>>
    /\ result = <<>>

\* ------------------------------------------------------------- the fan-in

\* The tasks that have not yet run to their end: waiting in the queue of the
\* pool, or with their worker in the OCR call.
InFlight == { i \in 1..Len(futures) : futures[i].state \in {"queued", "running"} }

\* C20: fan-in barrier: in every state in which the output has been merged,
\* or the call has returned after a fan-out, no submitted task is waiting or
\* in its OCR call: each has ended, with text or without, and has been
\* yielded by as_completed.
C20_FanInBarrier ==
    ("merged" \in Range(trace) \/ (pc = "done" /\ "fanout" \in Range(trace))) =>
        /\ InFlight = {}
        /\ \A i \in 1..Len(futures) : futures[i].state = "collected"
        /\ Len(arrivals) = Len(futures)

\* C20 witness: four tasks were submitted, the request of the last raised,
\* and the output was merged after all four had been yielded.
C20_Witness ==
    /\ "merged" \in Range(trace)
    /\ Len(futures) = 4
    /\ env.page_ocr[futures[4].image] = "raises"
    /\ Len(arrivals) = 4

\* ------------------------------------------------------------ termination

\* C21: termination: if every external call returns or fails, every call of
\* detect_text reaches its return, and every task that waits in the queue
\* of the pool is taken by a worker.
C21_Termination ==
    /\ <>(pc = "done")
    /\ \A i \in 1..MaxPages :
          [](  (i <= Len(futures) /\ futures[i].state = "queued")
               => <>(i <= Len(futures) /\ futures[i].state # "queued") )

\* C21 witness: a call with more tasks than workers has returned, each of
\* its pages requested once.
C21_Witness ==
    /\ pc = "done"
    /\ Len(futures) > max_workers
    /\ "merged" \in Range(trace)
    /\ \A i \in 1..Len(futures) : ocr_calls[futures[i].image] = 1

\* ----------------------------------------------- the range of the two phases

\* C22 (as claimed): phase-consistent page range: in a call that ran the
\* direct loop and then rendered, the page numbers the loop visited are the
\* pages whose rasters were handed to OCR tasks.
C22_SameRangeInBothPhases ==
    (HasPdfSignature /\ env.opens /\ "render" \in Range(trace)) =>
        DirectRange(total_pages, page_start, page_end)
            = { futures[i].image : i \in 1..Len(futures) }

\* ------------------------------------------- what the quality gate measures

\* The embedded text of the pages of the range, without markers or separators.
EmbeddedText ==
    Concat([ k \in 1..Cardinality(PagesWithText) |->
               LET p == Nth(PagesWithText, k) IN PageText(env.pages[p], p) ])

\* C23 (as claimed): the markers do not count toward the minimum length: a
\* PDF whose embedded text alone has a trimmed length below 50 is sent to OCR.
C23_MarkersNotCounted ==
    (HasPdfSignature /\ env.opens /\ Judged /\ TrimmedLen(EmbeddedText) < 50) =>
        "fallback" \in Range(trace)

\* ------------------------------------------------------------ the singleton

\* The calls of get_google_client that have returned.
Returned == { t \in DOMAIN threads : threads[t].pc = "returned" }

\* C24 (as claimed): singleton client: under every interleaving of the
\* calls, GoogleCloudClient is constructed at most once and all calls that
\* have returned have returned the same instance.
C24_Singleton ==
    /\ constructed <= 1
    /\ \A t, u \in Returned : threads[t].got = threads[u].got

\* ------------------------------------------------------------ the users table

\* The rows of a table that carry a google_id.
RowsOf(table, google_id) == { i \in 1..Len(table) : table[i].google_id = google_id }

\* The last call supplied a non-empty token under the key.
Supplied(key) ==
    /\ request[1].tokens # None
    /\ request[1].tokens[1][key] # None
    /\ request[1].tokens[1][key] # Some("")

\* The token column of the row after the last call, given the column before.
ExpectedToken(key, before) ==
    IF Supplied(key) THEN Some(<< "signed", request[1].tokens[1][key][1] >>) ELSE before

\* The account state of a row: its credits and its first-project flag.
AccountState(row) ==
    << row.ocr_credits, row.voice_credits_seconds, row.first_project_created >>

\* C25: get_or_create_user keeps one row per google_id; a call for a new
\* google_id appends a row with 10 OCR credits, 120 voice seconds and
\* first_project_created 0; a call for an existing google_id leaves its
\* credits and flag as they were; a stored token is overwritten only when a
\* non-empty token is supplied for it; no other row changes.
C25_OneUserPerGoogleId ==
    /\ \A i, j \in 1..Len(users) : users[i].google_id = users[j].google_id => i = j
    /\ request # None =>
          LET old == RowsOf(users_before, request[1].google_id)
              now == RowsOf(users, request[1].google_id)
          IN  /\ Cardinality(now) = 1
              /\ \A i \in 1..Len(users_before) : i \notin old => users[i] = users_before[i]
              /\ old = {} =>
                    /\ Len(users) = Len(users_before) + 1
                    /\ now = { Len(users) }
                    /\ AccountState(users[Len(users)]) = << 10, 120, 0 >>
                    /\ users[Len(users)].access_token = ExpectedToken("access_token", None)
                    /\ users[Len(users)].refresh_token = ExpectedToken("refresh_token", None)
              /\ \A i \in old :
                    /\ Len(users) = Len(users_before)
                    /\ AccountState(users[i]) = AccountState(users_before[i])
                    /\ users[i].access_token
                          = ExpectedToken("access_token", users_before[i].access_token)
                    /\ users[i].refresh_token
                          = ExpectedToken("refresh_token", users_before[i].refresh_token)

\* A returning user with spent credits and stored tokens signs in with an
\* empty access token and a fresh refresh token: the credits and the access
\* token stay, the refresh token is replaced.
C25_Witness ==
    /\ request # None
    /\ request[1].google_id = Some("g1")
    /\ request[1].tokens = Some([access_token |-> Some(""), refresh_token |-> Some("tok")])
    /\ Len(users_before) = 1
    /\ users_before[1].ocr_credits = 3
    /\ users_before[1].first_project_created = 1
    /\ users_before[1].access_token = Some(<< "signed", "old" >>)
    /\ users[1].ocr_credits = 3
    /\ users[1].access_token = Some(<< "signed", "old" >>)
    /\ users[1].refresh_token = Some(<< "signed", "tok" >>)

\* ------------------------------------------------------------ the Drive

\* The IndicScribe folders of the Drive, and the project files of a name in them.
IndicScribeFolders ==
    { files[i].id : i \in { j \in 1..Len(files) :
                               files[j].name = << "IndicScribe" >>
                               /\ files[j].mime = "application/vnd.google-apps.folder" } }

ProjectFiles(filename) ==
    { i \in 1..Len(files) : /\ files[i].parent \in IndicScribeFolders
                            /\ files[i].name = << "IndicScribe_", filename, ".json" >> }

\* The last call returned / was asked to upload a source file that failed.
SaveReturned == last_save # None /\ last_save[1].outcome = "returned"

SourceUploadFailed ==
    /\ last_save # None
    /\ last_save[1].call.file_name # None
    /\ last_save[1].call.file_data # None
    /\ last_save[1].call.fault \in { "subfolder", "source_list", "source_write" }

\* The part of C26 about the project file: after a call that returns there
\* is exactly one project file of that name in the IndicScribe folder, it
\* holds the content of the call and the call returns its id; a failed
\* source upload neither fails the call nor touches the project file.
C26_ProjectSaved ==
    /\ SaveReturned =>
          LET call == last_save[1].call
          IN  /\ Cardinality(IndicScribeFolders) = 1
              /\ Cardinality(ProjectFiles(call.filename)) = 1
              /\ \A i \in ProjectFiles(call.filename) :
                    /\ files[i].content = << "json", call.content_json >>
                    /\ last_save[1].result[1].id = files[i].id
    /\ SourceUploadFailed => SaveReturned
    /\ \A f \in { "a", "b" } : Cardinality(ProjectFiles(f)) <= 1

\* C26 (as claimed): save_project is create-or-update: after a call there is
\* exactly one project file 'IndicScribe_{filename}.json' in the IndicScribe
\* folder, holding the content of the last call; a failure while uploading
\* the source file does not fail or undo the save, which returns the
\* project's id with uploaded_file_id left unset.
C26_CreateOrUpdate ==
    /\ C26_ProjectSaved
    /\ (SaveReturned /\ SourceUploadFailed) =>
          last_save[1].result[1].uploaded_file_id = None

=============================================================================
